---------------------------- MODULE Spec2Model ----------------------------
(***************************************************************************)
(* batch-resizer: process_directory walks a directory tree and calls       *)
(* process_image on every .jpg/.jpeg file whose stem does not contain      *)
(* "_<suffix>"; process_image upscales the image to the minimum            *)
(* resolution, lowers the JPEG quality until the encoding fits the byte    *)
(* budget, and writes the encoding to the sibling "<stem>_<suffix><ext>".  *)
(*                                                                         *)
(* Numbers.  Python's `/` on two ints and `*` of an int and a float are    *)
(* IEEE-754 binary64 operations, rounded to nearest, ties to even.  A      *)
(* non-negative double is modelled exactly: a 53-bit significand as a      *)
(* sequence of bits, most significant first, and the exponent of its       *)
(* leading bit.  Zero is the empty significand.                            *)
(*                                                                         *)
(* Files.  A path is a sequence of names, a name a sequence of characters; *)
(* the file system maps the existing paths to directories and regular      *)
(* files (no links).  A file's bytes are run-length coded: a run           *)
(* [w, h, q, n] is n bytes of a JPEG encoding of a w x h image at          *)
(* quality q.                                                              *)
(***************************************************************************)
EXTENDS Integers, Sequences, FiniteSets, TLC

(***************************************************************************)
(* binary64 arithmetic                                                     *)
(***************************************************************************)
MantBits == 53

\* The significand is multiplied in limbs of LimbBits bits, low limb first.
LimbBits == 13

Zeros(k) == [i \in 1..k |-> 0]

FZero == [e |-> 0, m |-> << >>]

IsFZero(x) == Len(x.m) = 0

\* the number of binary digits of n, 1 <= n < 2^30
BitLen(n) == CHOOSE k \in 1..30 : 2^(k - 1) <= n /\ n < 2^k

\* the low k binary digits of n, most significant first
LowBits(n, k) == [i \in 1..k |-> (n \div 2^(k - i)) % 2]

\* the binary digits of n >= 1, most significant first
BitsOfNat(n) == LowBits(n, BitLen(n))

RECURSIVE NatOfBits(_)
\* the number a sequence of at most 30 bits writes (its two halves combined)
NatOfBits(b) ==
    IF Len(b) = 0 THEN 0
    ELSE IF Len(b) = 1 THEN b[1]
    ELSE LET h == Len(b) \div 2
         IN  NatOfBits(SubSeq(b, 1, h)) * 2^(Len(b) - h)
                 + NatOfBits(SubSeq(b, h + 1, Len(b)))

\* b + 1 on a sequence of bits that is not all ones
IncBits(b) ==
    LET z == CHOOSE i \in 1..Len(b) :
                 b[i] = 0 /\ \A j \in (i + 1)..Len(b) : b[j] = 1
    IN  SubSeq(b, 1, z - 1) \o <<1>> \o Zeros(Len(b) - z)

\* The double nearest to bits * 2^(e - Len(bits) + 1) (+ something below the
\* last bit when sticky), ties to even; bits[1] = 1 and e is its exponent.
RoundNearestEven(bits, sticky, e) ==
    IF Len(bits) <= MantBits
    THEN [e |-> e, m |-> bits \o Zeros(MantBits - Len(bits))]
    ELSE LET m     == SubSeq(bits, 1, MantBits)
             guard == bits[MantBits + 1]
             rest  == sticky \/ \E i \in (MantBits + 2)..Len(bits) : bits[i] = 1
             up    == guard = 1 /\ (rest \/ m[MantBits] = 1)
         IN  IF ~up THEN [e |-> e, m |-> m]
             ELSE IF \A i \in 1..MantBits : m[i] = 1
                  THEN [e |-> e + 1, m |-> <<1>> \o Zeros(MantBits - 1)]
                  ELSE [e |-> e, m |-> IncBits(m)]

\* float(n) for an int n, 0 <= n < 2^30 (exact)
FromInt(n) ==
    IF n = 0 THEN FZero
    ELSE RoundNearestEven(BitsOfNat(n), FALSE, BitLen(n) - 1)

RECURSIVE Pow2Mod(_, _)
\* 2^j mod d, for d < 2^11
Pow2Mod(j, d) ==
    IF j <= 20 THEN (2^j) % d
    ELSE (Pow2Mod(j \div 2, d) * Pow2Mod(j - j \div 2, d)) % d

\* (num * 2^j) mod den: the remainder of long division after j quotient bits
DivRem(num, den, j) == ((num % den) * Pow2Mod(j, den)) % den

\* a / b for ints 0 <= a < 2^10, 1 <= b < 2^10: the correctly rounded
\* quotient.  num/den is a/b scaled into [1, 2); quotient bit j after the
\* leading one is whether twice the remainder before it reaches den.
FDivInt(a, b) ==
    IF a = 0 THEN FZero
    ELSE LET up   == IF a >= b
                     THEN CHOOSE k \in 0..10 : b * 2^k <= a /\ a < b * 2^(k + 1)
                     ELSE 0
             down == IF a < b
                     THEN CHOOSE k \in 1..10 : a * 2^k >= b /\ a * 2^(k - 1) < b
                     ELSE 0
             num  == a * 2^down
             den  == b * 2^up
             bits == [j \in 1..(MantBits + 1) |->
                         IF j = 1 THEN 1
                         ELSE (2 * DivRem(num, den, j - 2)) \div den]
         IN  RoundNearestEven(bits, DivRem(num, den, MantBits) # 0, up - down)

\* the limbs of a significand, low limb first; the top limb holds the bits left
Limbs(m) ==
    LET k == (Len(m) + LimbBits - 1) \div LimbBits
    IN  [i \in 1..k |->
            LET hi == Len(m) - (i - 1) * LimbBits
                lo == IF hi > LimbBits THEN hi - LimbBits + 1 ELSE 1
            IN  NatOfBits(SubSeq(m, lo, hi))]

RECURSIVE MulLimbs(_, _, _, _)
\* the bits of n * (limbs i.. as a number) + carry, most significant first:
\* schoolbook multiplication from the low limb
MulLimbs(l, n, i, carry) ==
    LET t == n * l[i] + carry
    IN  IF i = Len(l)
        THEN (IF t = 0 THEN << >> ELSE BitsOfNat(t))
        ELSE MulLimbs(l, n, i + 1, t \div 2^LimbBits)
                 \o LowBits(t % 2^LimbBits, LimbBits)

\* n * x for an int 0 <= n < 2^10 and a double x >= 0: float(n) * x, the
\* exact product rounded once
FMulInt(n, x) ==
    IF n = 0 \/ IsFZero(x) THEN FZero
    ELSE LET p == MulLimbs(Limbs(x.m), n, 1, 0)
         IN  RoundNearestEven(p, FALSE, x.e + Len(p) - MantBits)

\* x < y
FLess(x, y) ==
    IF IsFZero(y) THEN FALSE
    ELSE IF IsFZero(x) THEN TRUE
    ELSE IF x.e # y.e THEN x.e < y.e
    ELSE \E i \in 1..MantBits :
             /\ x.m[i] < y.m[i]
             /\ \A j \in 1..(i - 1) : x.m[j] = y.m[j]

FOne == FromInt(1)

\* Python's max(a, b, c): the first of the largest
FMax3(a, b, c) ==
    LET ab == IF FLess(a, b) THEN b ELSE a
    IN  IF FLess(ab, c) THEN c ELSE ab

\* the bits of x before and after the binary point
WholeBits(x) ==
    IF IsFZero(x) \/ x.e < 0 THEN << >> ELSE SubSeq(x.m, 1, x.e + 1)

FracBits(x) ==
    IF IsFZero(x) THEN << >>
    ELSE IF x.e < 0 THEN Zeros(-x.e - 1) \o x.m
    ELSE SubSeq(x.m, x.e + 2, MantBits)

\* round(x): to the nearest integer, ties to the even one
RoundHalfEven(x) ==
    LET t    == NatOfBits(WholeBits(x))
        half == Len(FracBits(x)) > 0 /\ FracBits(x)[1] = 1
        more == \E i \in 2..Len(FracBits(x)) : FracBits(x)[i] = 1
    IN  IF half /\ (more \/ t % 2 = 1) THEN t + 1 ELSE t

\* int(x): truncation toward zero
Trunc(x) == NatOfBits(WholeBits(x))

(***************************************************************************)
(* names and paths (pathlib)                                               *)
(***************************************************************************)
LowerChar(c) ==
    CASE c = "J" -> "j" [] c = "P" -> "p" [] c = "E" -> "e" [] c = "G" -> "g"
      [] OTHER -> c

\* str.lower()
Lower(s) == [i \in 1..Len(s) |-> LowerChar(s[i])]

\* name.rfind('.'), 1-based; 0 when there is no dot
LastDot(name) ==
    LET dots == {i \in 1..Len(name) : name[i] = "."}
    IN  IF dots = {} THEN 0 ELSE CHOOSE i \in dots : \A j \in dots : j <= i

\* PurePath.suffix: from the last dot, unless it leads or ends the name
PathSuffix(name) ==
    IF 1 < LastDot(name) /\ LastDot(name) < Len(name)
    THEN SubSeq(name, LastDot(name), Len(name)) ELSE << >>

\* PurePath.stem
PathStem(name) ==
    IF 1 < LastDot(name) /\ LastDot(name) < Len(name)
    THEN SubSeq(name, 1, LastDot(name) - 1) ELSE name

\* sub in s
Contains(s, sub) ==
    \E i \in 0..(Len(s) - Len(sub)) : SubSeq(s, i + 1, i + Len(sub)) = sub

PathName(p) == p[Len(p)]

Parent(p) == SubSeq(p, 1, Len(p) - 1)

\* p lies below directory d
Under(p, d) == Len(p) > Len(d) /\ SubSeq(p, 1, Len(d)) = d

IsDir(f, p) == p \in DOMAIN f /\ f[p].kind = "dir"

IsFile(f, p) == p \in DOMAIN f /\ f[p].kind = "file"

Jpg == <<".", "j", "p", "g">>

Jpeg == <<".", "j", "p", "e", "g">>

\* the marker "_<suffix>" of a processed file
Marker(suffix) == <<"_">> \o suffix

\* the eligibility test of process_directory
IsCandidateUnguarded(f, p, suffix) ==
    /\ IsFile(f, p)
    /\ Lower(PathSuffix(PathName(p))) \in {Jpg, Jpeg}

IsCandidate(f, p, suffix) ==
    /\ IsFile(f, p)
    /\ Lower(PathSuffix(PathName(p))) \in {Jpg, Jpeg}
    /\ ~Contains(PathStem(PathName(p)), Marker(suffix))

\* new_path: the sibling "<stem>_<suffix><ext>"
NewPathSameName(p, suffix) ==
    Append(Parent(p), PathStem(PathName(p)) \o PathSuffix(PathName(p)))

NewPath(p, suffix) ==
    Append(Parent(p),
           PathStem(PathName(p)) \o Marker(suffix) \o PathSuffix(PathName(p)))

\* base.is_dir()
BaseOkExists(f, d) == d \in DOMAIN f

BaseOk(f, d) == IsDir(f, d)

(***************************************************************************)
(* process_image: resolution                                               *)
(***************************************************************************)
\* scale = max(1.0, min_width / orig_w, min_height / orig_h)
Scale(im, c) ==
    FMax3(FOne, FDivInt(c.min_width, im.w), FDivInt(c.min_height, im.h))

\* scale > 1.0
NeedsResizeOrEqual(s) == ~FLess(s, FOne)

NeedsResize(s) == FLess(FOne, s)

\* the image after step 1; resampled records that img.resize ran
Resized(im, c) ==
    IF NeedsResize(Scale(im, c))
    THEN [w |-> Trunc(FMulInt(im.w, Scale(im, c))),
          h |-> Trunc(FMulInt(im.h, Scale(im, c))),
          resampled |-> TRUE]
    ELSE [w |-> im.w, h |-> im.h, resampled |-> FALSE]

(***************************************************************************)
(* process_image: the byte buffer and the quality loop                     *)
(***************************************************************************)
InitialQuality == 85

QualityFloor == 10

QualityStep == 5

Budget(c) == c.max_size_kb * 1000

RECURSIVE TakeBytes(_, _)
\* the first k bytes of run-length coded data
TakeBytes(data, k) ==
    IF k <= 0 \/ Len(data) = 0 THEN << >>
    ELSE IF data[1].n <= k THEN <<data[1]>> \o TakeBytes(Tail(data), k - data[1].n)
    ELSE <<[data[1] EXCEPT !.n = k]>>

RECURSIVE DropBytes(_, _)
\* data without its first k bytes
DropBytes(data, k) ==
    IF Len(data) = 0 THEN << >>
    ELSE IF k <= 0 THEN data
    ELSE IF data[1].n <= k THEN DropBytes(Tail(data), k - data[1].n)
    ELSE <<[data[1] EXCEPT !.n = data[1].n - k]>> \o Tail(data)

EmptyBuffer == [pos |-> 0, data |-> << >>]

\* img.save(buffer, format="JPEG", quality=q): n bytes written at the position
Save(buf, im, q, n) ==
    [pos  |-> buf.pos + n,
     data |-> TakeBytes(buf.data, buf.pos)
                  \o <<[w |-> im.w, h |-> im.h, q |-> q, n |-> n]>>
                  \o DropBytes(buf.data, buf.pos + n)]

\* buffer.seek(0); buffer.truncate(0)
RewindKeepBytes(buf) == [pos |-> 0, data |-> buf.data]

Rewind(buf) == [pos |-> 0, data |-> << >>]

\* the while condition; buffer.tell() is the position
LoopCondFloorIncluded(buf, q, c) == buf.pos > Budget(c) /\ q >= QualityFloor

LoopCond(buf, q, c) == buf.pos > Budget(c) /\ q > QualityFloor

\* quality -= 5
NextQualitySmallStep(q) == q - (QualityStep - 1)

NextQuality(q) == q - QualityStep

\* the bytes of a source file holding a w x h image, and of one that is no image
SrcBytes(w, h) == <<[w |-> w, h |-> h, q |-> 0, n |-> 1]>>

JunkBytes == <<[w |-> 0, h |-> 0, q |-> 0, n |-> 1]>>

\* Image.open(path) succeeds
Decodable(bytes) == Len(bytes) = 1 /\ bytes[1].q = 0 /\ bytes[1].w >= 1

\* img.size after Image.open(path).convert("RGB")
Decoded(bytes) == [w |-> bytes[1].w, h |-> bytes[1].h]

(***************************************************************************)
(* the bounds of the model                                                 *)
(***************************************************************************)
\* initial regular files, and invocations of process_directory, per behaviour
MaxFiles == 2

MaxRuns == 2

\* SpecResize: image sizes 1..MaxW x 1..MaxH, minimums 0..MaxMinW, 0..MaxMinH
MaxW == 2

MaxH == 11

MaxMinW == 2

MaxMinH == 15

Root == <<<<"d">>>>

Sub == Append(Root, <<"s">>)

NameA == <<"a">> \o Jpg

NameAOut == <<"a", "_", "r">> \o Jpg

NameB == <<"b", ".", "J", "P", "E", "G">>

NameC == <<"c", ".", "p", "n", "g">>

\* where the initial files may be
FilePaths ==
    {Append(Root, n) : n \in {NameA, NameAOut, NameB, NameC}}
        \cup {Append(Sub, NameA)}

\* the dir_path arguments tried: two directories and a path that is none
DirArgs == {Root, Sub, Append(Root, NameA)}

Suffixes == {<<"r">>, << >>}

\* the encoder's quality scale
Qualities == 0..100

\* byte counts an encoding may have; the budgets are 1000 and 2000 bytes
SizeChoices == {999, 1000, 1001, 2001}

\* a codec whose encodings of every image have any of the sizes at any quality
AnyCodec == [q \in Qualities |-> SizeChoices]

\* a codec whose encodings exceed a budget of 1000 bytes above quality q only
FitsFrom(q) == [x \in Qualities |-> IF x > q THEN {1001} ELSE {1000}]

NoPath == << >>

NoErr == [kind |-> "none", path |-> NoPath]

NoImage == [w |-> 0, h |-> 0, resampled |-> FALSE]

NoSize == [w |-> 0, h |-> 0]

NoRun == [base |-> NoPath, processed |-> {}, written |-> {}, ok |-> FALSE]

NoFailure == [path |-> NoPath, processed |-> {}, writes |-> {}]

DirEntry == [kind |-> "dir", bytes |-> << >>]

FileEntry(bytes) == [kind |-> "file", bytes |-> bytes]

VARIABLES
    fs,        \* the file system: existing path -> [kind, bytes]
    cfg,       \* the command line: [directory, min_width, min_height,
               \* max_size_kb, suffix]
    codec,     \* quality -> the sizes an encoding at that quality may have
    runsLeft,  \* invocations of the command line still to come
    pc,        \* "idle" | "walk" | "loop" | "raised"
    base,      \* process_directory: base, once an invocation began
    todo,      \* the entries rglob has still to yield
    path,      \* process_image: path
    orig,      \* process_image: (orig_w, orig_h)
    img,       \* process_image: img after step 1
    quality,   \* process_image: quality
    buffer,    \* process_image: buffer, [pos, data]
    err,       \* the exception that ended the invocation
    tried,     \* history: the qualities img was encoded at
    rejected,  \* history: those whose encoding exceeded the budget
    processed, \* history: the paths process_image was called with, this run
    writes,    \* history: the files process_image wrote, this run
    failure,   \* history: what a failing process_image left behind
    fs0,       \* history: the file system when the invocation began
    prev       \* history: the invocation before this one

vars == <<fs, cfg, codec, runsLeft, pc, base, todo, path, orig, img, quality,
          buffer, err, tried, rejected, processed, writes, failure, fs0, prev>>

image == <<path, orig, img, quality, buffer, tried, rejected>>

\* the state before the first invocation, given files, arguments and codec
Start(files, c, cd, runs) ==
    /\ fs = (Root :> DirEntry) @@ (Sub :> DirEntry) @@ files
    /\ cfg = c
    /\ codec = cd
    /\ runsLeft = runs
    /\ pc = "idle"
    /\ base = NoPath
    /\ todo = {}
    /\ path = NoPath
    /\ orig = NoSize
    /\ img = NoImage
    /\ quality = InitialQuality
    /\ buffer = EmptyBuffer
    /\ err = NoErr
    /\ tried = {}
    /\ rejected = {}
    /\ processed = {}
    /\ writes = {}
    /\ failure = NoFailure
    /\ fs0 = (Root :> DirEntry) @@ (Sub :> DirEntry) @@ files
    /\ prev = NoRun

\* any at most MaxFiles files, images or not, and a codec whose second
\* encoding fits
Init ==
    \E F \in SUBSET FilePaths :
        /\ Cardinality(F) <= MaxFiles
        /\ \E content \in [F -> {SrcBytes(1, 1), JunkBytes}], s \in Suffixes,
              d \in DirArgs :
               Start([p \in F |-> FileEntry(content[p])],
                     [directory |-> d, min_width |-> 2, min_height |-> 2,
                      max_size_kb |-> 1, suffix |-> s],
                     FitsFrom(InitialQuality - QualityStep),
                     MaxRuns)

\* one file, an image of any size up to MaxW x MaxH or no image, and any
\* minimums up to the bounds
InitResize ==
    \E mw \in 0..MaxMinW, mh \in 0..MaxMinH, d \in DirArgs,
       bytes \in {SrcBytes(w, h) : w \in 1..MaxW, h \in 1..MaxH} \cup {JunkBytes} :
        Start(Append(Root, NameA) :> FileEntry(bytes),
              [directory |-> d, min_width |-> mw, min_height |-> mh,
               max_size_kb |-> 1, suffix |-> <<"r">>],
              FitsFrom(InitialQuality - QualityStep),
              1)

\* one file, a small image or no image, and any codec
InitQuality ==
    \E kb \in 1..2, d \in DirArgs,
       bytes \in {SrcBytes(w, h) : w \in 1..2, h \in 1..2} \cup {JunkBytes} :
        Start(Append(Root, NameA) :> FileEntry(bytes),
              [directory |-> d, min_width |-> 2, min_height |-> 2,
               max_size_kb |-> kb, suffix |-> <<"r">>],
              AnyCodec,
              1)

\* what is kept of the invocation that ended: of one that returned, the
\* candidates it processed and the files it wrote
Ended ==
    IF pc = "idle" /\ base # NoPath
    THEN [base |-> base, processed |-> processed,
          written |-> {x.dst : x \in writes}, ok |-> TRUE]
    ELSE NoRun

\* the command line is run: a new process, whose history starts empty
Begin ==
    /\ pc \in {"idle", "raised"}
    /\ runsLeft > 0
    /\ runsLeft' = runsLeft - 1
    /\ base' = cfg.directory
    /\ prev' = Ended
    /\ fs0' = fs
    /\ processed' = {}
    /\ writes' = {}
    /\ failure' = NoFailure
    /\ path' = NoPath
    /\ orig' = NoSize
    /\ img' = NoImage
    /\ quality' = InitialQuality
    /\ buffer' = EmptyBuffer
    /\ tried' = {}
    /\ rejected' = {}
    /\ UNCHANGED <<fs, cfg, codec>>

\* process_directory(dir_path) with dir_path no directory
CallNotDir ==
    /\ Begin
    /\ ~BaseOk(fs, cfg.directory)
    /\ pc' = "raised"
    /\ err' = [kind |-> "NotADirectoryError", path |-> cfg.directory]
    /\ todo' = {}

\* process_directory(dir_path): base.rglob("*") is every entry below base
CallDir ==
    /\ Begin
    /\ BaseOk(fs, cfg.directory)
    /\ pc' = "walk"
    /\ err' = NoErr
    /\ todo' = {p \in DOMAIN fs : Under(p, cfg.directory)}

\* the loop of process_directory passes over an entry that is no candidate
Skip(p) ==
    /\ pc = "walk"
    /\ p \in todo
    /\ ~IsCandidate(fs, p, cfg.suffix)
    /\ todo' = todo \ {p}
    /\ UNCHANGED <<fs, cfg, codec, runsLeft, pc, base, image, err, processed,
                   writes, failure, fs0, prev>>

\* except Exception as e: raise Exception(f"Failed to process image {path}")
RaisedSwallowed(p) == [pc |-> "walk", err |-> NoErr]

Raised(p) == [pc |-> "raised", err |-> [kind |-> "Exception", path |-> p]]

\* process_image fails on p: the exception leaves process_directory
Fail(p) ==
    /\ pc' = Raised(p).pc
    /\ err' = Raised(p).err
    /\ failure' = [path |-> p, processed |-> processed' , writes |-> writes]
    /\ UNCHANGED <<cfg, codec, runsLeft, base, writes, fs0, prev>>

\* process_image(p): Image.open fails
OpenFail(p) ==
    /\ pc = "walk"
    /\ p \in todo
    /\ IsCandidate(fs, p, cfg.suffix)
    /\ ~Decodable(fs[p].bytes)
    /\ todo' = todo \ {p}
    /\ path' = p
    /\ processed' = processed \cup {p}
    /\ UNCHANGED <<fs, orig, img, quality, buffer, tried, rejected>>
    /\ Fail(p)

\* process_image(p) up to the first encoding: open, convert, resize, save
BeginImage(p, n) ==
    /\ pc = "walk"
    /\ p \in todo
    /\ IsCandidate(fs, p, cfg.suffix)
    /\ Decodable(fs[p].bytes)
    /\ n \in codec[InitialQuality]
    /\ todo' = todo \ {p}
    /\ path' = p
    /\ processed' = processed \cup {p}
    /\ orig' = Decoded(fs[p].bytes)
    /\ img' = Resized(Decoded(fs[p].bytes), cfg)
    /\ quality' = InitialQuality
    /\ buffer' = Save(EmptyBuffer, img', InitialQuality, n)
    /\ tried' = {InitialQuality}
    /\ rejected' = IF n > Budget(cfg) THEN {InitialQuality} ELSE {}
    /\ pc' = "loop"
    /\ UNCHANGED <<fs, cfg, codec, runsLeft, base, err, writes, failure, fs0,
                   prev>>

\* one pass of the while loop: a lower quality, the buffer emptied, an encoding
LoopStep(n) ==
    /\ pc = "loop"
    /\ LoopCond(buffer, quality, cfg)
    /\ n \in codec[NextQuality(quality)]
    /\ quality' = NextQuality(quality)
    /\ buffer' = Save(Rewind(buffer), img, quality', n)
    /\ tried' = tried \cup {quality'}
    /\ rejected' = IF n > Budget(cfg) THEN rejected \cup {quality'} ELSE rejected
    /\ UNCHANGED <<fs, cfg, codec, runsLeft, pc, base, todo, path, orig, img,
                   err, processed, writes, failure, fs0, prev>>

\* the loop is over: open(new_path, "wb") and f.write(buffer.getvalue()).  A
\* file that did not exist may or may not be yielded by the running rglob.
WriteOut(seen) ==
    /\ pc = "loop"
    /\ ~LoopCond(buffer, quality, cfg)
    /\ ~IsDir(fs, NewPath(path, cfg.suffix))
    /\ fs' = (NewPath(path, cfg.suffix) :> FileEntry(buffer.data)) @@ fs
    /\ todo' = IF seen /\ NewPath(path, cfg.suffix) \notin DOMAIN fs
               THEN todo \cup {NewPath(path, cfg.suffix)} ELSE todo
    /\ writes' = writes \cup
           {[src |-> path, dst |-> NewPath(path, cfg.suffix),
             bytes |-> buffer.data, q |-> quality, n |-> buffer.pos,
             orig |-> orig, img |-> img, tried |-> tried,
             rejected |-> rejected]}
    /\ pc' = "walk"
    /\ UNCHANGED <<cfg, codec, runsLeft, base, image, err, processed, failure,
                   fs0, prev>>

\* open(new_path, "wb") fails: nothing is written
WriteOpenFail ==
    /\ pc = "loop"
    /\ ~LoopCond(buffer, quality, cfg)
    /\ UNCHANGED <<fs, todo, image, processed>>
    /\ Fail(path)

\* f.write fails: open has created or emptied the file
WriteFail ==
    /\ pc = "loop"
    /\ ~LoopCond(buffer, quality, cfg)
    /\ ~IsDir(fs, NewPath(path, cfg.suffix))
    /\ fs' = (NewPath(path, cfg.suffix) :> FileEntry(<< >>)) @@ fs
    /\ UNCHANGED <<todo, image, processed>>
    /\ Fail(path)

\* rglob is exhausted: process_directory returns
Return ==
    /\ pc = "walk"
    /\ todo = {}
    /\ pc' = "idle"
    /\ UNCHANGED <<fs, cfg, codec, runsLeft, base, todo, image, err, processed,
                   writes, failure, fs0, prev>>

Next ==
    \/ CallNotDir
    \/ CallDir
    \/ \E p \in todo : Skip(p)
    \/ \E p \in todo : OpenFail(p)
    \/ \E p \in todo, n \in SizeChoices : BeginImage(p, n)
    \/ \E n \in SizeChoices : LoopStep(n)
    \/ \E seen \in BOOLEAN : WriteOut(seen)
    \/ WriteOpenFail
    \/ WriteFail
    \/ Return

Spec == Init /\ [][Next]_vars

SpecResize == InitResize /\ [][Next]_vars

SpecQuality == InitQuality /\ [][Next]_vars

(***************************************************************************)
(* the claims                                                              *)
(***************************************************************************)
\* the candidates of a file system
Candidates(f) == {p \in DOMAIN f : IsCandidate(f, p, cfg.suffix)}

\* the qualities 85, 80, ... down to q
Descent(q) ==
    {x \in Qualities : /\ q <= x
                       /\ x <= InitialQuality
                       /\ (InitialQuality - x) % QualityStep = 0}

\* orig_w * scale and orig_h * scale of the image at hand
ProductW == FMulInt(orig.w, Scale(orig, cfg))

ProductH == FMulInt(orig.h, Scale(orig, cfg))

\* 2 * x
Twice(x) == IF IsFZero(x) THEN x ELSE [x EXCEPT !.e = @ + 1]

\* n is an integer nearest to x >= 1/2: |x - n| <= 1/2
Nearest(n, x) ==
    /\ ~FLess(Twice(x), FromInt(2 * n - 1))
    /\ ~FLess(FromInt(2 * n + 1), Twice(x))

\* n is x truncated: n <= x < n + 1
Truncated(n, x) == ~FLess(x, FromInt(n)) /\ FLess(x, FromInt(n + 1))

\* C1: every encoding process_image writes after its quality loop is within
\* the byte budget or was made at quality 10, whatever sizes the codec gives.
C1_BudgetOrFloor ==
    \A x \in writes : x.n <= cfg.max_size_kb * 1000 \/ x.q = 10

C1_FloorOverBudget ==
    \E x \in writes : x.q = 10 /\ x.n > cfg.max_size_kb * 1000

\* C2: an image below min_width or below min_height is resized to at least
\* min_width x min_height.
C2_ResolutionFloor ==
    (pc = "loop" /\ (orig.w < cfg.min_width \/ orig.h < cfg.min_height))
        => (img.w >= cfg.min_width /\ img.h >= cfg.min_height)

\* C3: an image of at least min_width x min_height is not resized: the image
\* encoded has the input's dimensions.
C3_NoResize ==
    (pc = "loop" /\ orig.w >= cfg.min_width /\ orig.h >= cfg.min_height)
        => /\ ~img.resampled
           /\ img.w = orig.w /\ img.h = orig.h
           /\ \A i \in 1..Len(buffer.data) :
                  buffer.data[i].w = orig.w /\ buffer.data[i].h = orig.h

C3_LargerImage ==
    /\ pc = "loop"
    /\ cfg.min_width > 0 /\ cfg.min_height > 0
    /\ orig.w > cfg.min_width /\ orig.h > cfg.min_height

\* C4: every file a run writes has a stem containing "_<suffix>" (once, not
\* chained) and is no candidate; writing leaves the set of candidates as it
\* was; and a run that returns after a run that returned has processed the
\* same candidates and written the same files.
C4_Idempotent ==
    /\ \A x \in writes :
           /\ Contains(PathStem(PathName(x.dst)), Marker(cfg.suffix))
           /\ ~Contains(PathStem(PathName(x.dst)),
                        Marker(cfg.suffix) \o Marker(cfg.suffix))
           /\ x.dst \notin Candidates(fs)
    /\ Candidates(fs) = Candidates(fs0)
    /\ (pc = "idle" /\ prev.ok)
           => /\ processed = prev.processed
              /\ {x.dst : x \in writes} = prev.written

C4_SecondRun ==
    /\ pc = "idle"
    /\ prev.ok
    /\ prev.processed # {}
    /\ \E x \in writes : x.dst \in DOMAIN fs0

\* C5: the quality loop encodes an image at most 16 times, the first encoding
\* at quality 85 included: each pass lowers the quality by 5, not below 10.
C5_AtMost16 ==
    /\ Cardinality(tried) <= 16
    /\ pc = "loop" => /\ quality >= 10
                      /\ Cardinality(tried) = (85 - quality) \div 5 + 1

C5_Sixteen == pc = "loop" /\ Cardinality(tried) = 16

\* C6: once process_image has failed on a candidate, the run is over with an
\* error naming that path, no further candidate is processed, and every file
\* written for an earlier candidate is as it was written.
C6_Abort ==
    /\ \A x \in writes : x.dst \in DOMAIN fs /\ fs[x.dst] = FileEntry(x.bytes)
    /\ failure.path # NoPath
           => /\ pc = "raised"
              /\ err = [kind |-> "Exception", path |-> failure.path]
              /\ processed = failure.processed
              /\ writes = failure.writes

C6_FailedAfterWrite ==
    /\ failure.path # NoPath
    /\ writes # {}
    /\ todo # {}

\* C7: a run changes no candidate: each file written is the sibling
\* "<stem>_<suffix><ext>" of its source, which is not the source and not any
\* candidate.
C7_SourcesUnchanged ==
    /\ \A p \in Candidates(fs0) : p \in DOMAIN fs /\ fs[p] = fs0[p]
    /\ \A x \in writes :
           /\ Parent(x.dst) = Parent(x.src)
           /\ PathName(x.dst) = PathStem(PathName(x.src)) \o <<"_">>
                                    \o cfg.suffix \o PathSuffix(PathName(x.src))
           /\ x.dst # x.src
           /\ x.dst \notin Candidates(fs0)

C7_Overwrote ==
    \E x \in writes : x.dst \in DOMAIN fs0 /\ fs[x.dst] # fs0[x.dst]

\* C8: called with a path that is no directory, process_directory raises
\* NotADirectoryError with nothing enumerated, processed, read or written;
\* and it raises that error in no other case.
C8_NotADirectory ==
    /\ (base # NoPath /\ ~IsDir(fs0, base))
           => /\ pc = "raised"
              /\ err = [kind |-> "NotADirectoryError", path |-> base]
              /\ todo = {} /\ processed = {} /\ writes = {}
              /\ path = NoPath /\ tried = {}
              /\ fs = fs0
    /\ err.kind = "NotADirectoryError" => ~IsDir(fs0, base)

C8_FileAsDirectory ==
    err.kind = "NotADirectoryError" /\ IsFile(fs, base)

C10_FirstFit ==
    \A x \in writes :
        /\ x.bytes = <<[w |-> x.img.w, h |-> x.img.h, q |-> x.q, n |-> x.n]>>
        /\ fs[x.dst].bytes = x.bytes
        /\ x.img = Resized(x.orig, cfg)
        /\ x.tried = Descent(x.q)
        /\ x.n <= cfg.max_size_kb * 1000 => x.rejected = x.tried \ {x.q}
        /\ x.n > cfg.max_size_kb * 1000 => x.q = 10 /\ x.rejected = x.tried

C10_FitAfterRejections ==
    \E x \in writes :
        /\ x.q < 85 /\ x.q > 10
        /\ x.n < cfg.max_size_kb * 1000
        /\ x.img.resampled

=============================================================================
